---------------------------- MODULE Spec2Model ----------------------------
(***************************************************************************)
(* simple-speech: the Recognition facade (src/src/recognition.ts) over the *)
(* host's webkitSpeechRecognition sessions.                                *)
(*                                                                         *)
(* State: the Recognition instances created so far (immutable option       *)
(* records), and the host sessions created by subscribe / listen, each     *)
(* with the configuration assigned to the host object, the host events     *)
(* dispatched on it, the calls made on the observer (subscribe) and the    *)
(* promise (listen).                                                       *)
(***************************************************************************)
EXTENDS Integers, Sequences, FiniteSets, TLC

VARIABLES instances, lastUse, sessions

\* the Synthesis facade (src/src/synthesis.ts): the Synthesis instances created
\* so far, the last use call, the host's voice catalog, the speak calls made
\* and the utterances handed to the host, in order
VARIABLES synths, lastSynthUse, catalog, jobs, utterances

recognitionVars == <<instances, lastUse, sessions>>

synthesisVars == <<synths, lastSynthUse, catalog, jobs, utterances>>

vars == <<instances, lastUse, sessions, synths, lastSynthUse, catalog, jobs, utterances>>

-----------------------------------------------------------------------------
(* Bounds *)

MaxInstances == 2
MaxSessions == 1
MaxSteps == 2
MaxSynths == 2
MaxJobs == 1
MaxOpen == 2
MaxCalls == 2
MaxLoops == 2

-----------------------------------------------------------------------------
(* RecognitionOptions and the default instance *)

Keys == {"lang", "continuous", "interimResults", "maxAlternatives"}

Langs == {"en-US", "pt-BR"}

DefaultOptions ==
  [lang |-> "en-US", continuous |-> FALSE, interimResults |-> FALSE, maxAlternatives |-> 1]

\* the value undefined, which a Partial<RecognitionOptions> may carry under a key
Undefined == "undefined"

\* Partial<RecognitionOptions> arguments handed to use
Overrides ==
  { [interimResults |-> TRUE, maxAlternatives |-> 2],
    [lang |-> "pt-BR", continuous |-> TRUE],
    [continuous |-> FALSE, interimResults |-> FALSE] }

\* arguments that carry a key explicitly set to undefined
UndefinedOverrides == { [lang |-> Undefined] }

\* {...a, ...b}: own keys of a, then own keys of b, the later assignment wins
ObjectSpreadSwapped(a, b) ==
  [k \in DOMAIN a \cup DOMAIN b |-> IF k \in DOMAIN a THEN a[k] ELSE b[k]]

ObjectSpread(a, b) ==
  [k \in DOMAIN a \cup DOMAIN b |-> IF k \in DOMAIN b THEN b[k] ELSE a[k]]

\* Object.assign(target, source) on a fresh host session object
ObjectAssign(target, source) == ObjectSpread(target, source)

\* attribute values of a freshly constructed webkitSpeechRecognition
HostDefaults ==
  [lang |-> "", continuous |-> FALSE, interimResults |-> FALSE, maxAlternatives |-> 1]

-----------------------------------------------------------------------------
(* Host events *)

EventTypes ==
  <<"audioend", "audiostart", "end", "error", "nomatch", "result",
    "soundend", "soundstart", "speechend", "speechstart", "start">>

TypeSet == {EventTypes[i] : i \in DOMAIN EventTypes}

A1 == [transcript |-> "hello world", confidence |-> 87]
A2 == [transcript |-> "hello wards", confidence |-> 0]
A3 == [transcript |-> "hello", confidence |-> 90]

Final1 == [isFinal |-> TRUE, alts |-> <<A1>>]
Final2 == [isFinal |-> TRUE, alts |-> <<A2, A1>>]
Final3 == [isFinal |-> TRUE, alts |-> <<A3>>]
Interim1 == [isFinal |-> FALSE, alts |-> <<A3>>]

NoResults == <<>>

LifecycleEvent(t) == [type |-> t, resultIndex |-> 0, results |-> NoResults, error |-> "none"]

ErrorEvent(code) == [type |-> "error", resultIndex |-> 0, results |-> NoResults, error |-> code]

ResultEvent(idx, rs) == [type |-> "result", resultIndex |-> idx, results |-> rs, error |-> "none"]

ErrorCodes == {"no-speech", "not-allowed"}

ResultEvents ==
  { ResultEvent(1, <<Final1>>),
    ResultEvent(1, <<Final3>>),
    ResultEvent(2, <<Final1, Interim1>>),
    ResultEvent(2, <<Interim1, Final2>>) }

\* the lifecycle events the modelled host emits
EmittedTypes == {"start", "nomatch", "end"}

HostEvents ==
  {LifecycleEvent(t) : t \in EmittedTypes}
    \cup {ErrorEvent(c) : c \in ErrorCodes}
    \cup ResultEvents

-----------------------------------------------------------------------------
(* Event normalisation *)

NoEvent == LifecycleEvent("none")

\* Object.assign(e, { tag: next }) as TaggedEvent
Tagged(e, t) == [tag |-> t, event |-> e]

toRecognitionEventTopOnly(e) ==
  IF e.tag = "result"
    THEN [tag |-> IF e.event.results[e.event.resultIndex].isFinal THEN "final" ELSE "interim",
          alternatives |->
            [i \in {1} |->
               [transcript |-> e.event.results[e.event.resultIndex].alts[i].transcript,
                confidence |-> e.event.results[e.event.resultIndex].alts[i].confidence]],
          event |-> NoEvent]
    ELSE [tag |-> e.tag, alternatives |-> <<>>, event |-> e.event]

toRecognitionEventUnshaped(e) ==
  [tag |-> e.tag, alternatives |-> <<>>, event |-> e.event]

toRecognitionEventFirstResult(e) ==
  IF e.tag = "result"
    THEN [tag |-> IF e.event.results[1].isFinal THEN "final" ELSE "interim",
          alternatives |->
            [i \in DOMAIN e.event.results[e.event.resultIndex].alts |->
               [transcript |-> e.event.results[e.event.resultIndex].alts[i].transcript,
                confidence |-> e.event.results[e.event.resultIndex].alts[i].confidence]],
          event |-> NoEvent]
    ELSE [tag |-> e.tag, alternatives |-> <<>>, event |-> e.event]

toRecognitionEvent(e) ==
  IF e.tag = "result"
    THEN [tag |-> IF e.event.results[e.event.resultIndex].isFinal THEN "final" ELSE "interim",
          alternatives |->
            [i \in DOMAIN e.event.results[e.event.resultIndex].alts |->
               [transcript |-> e.event.results[e.event.resultIndex].alts[i].transcript,
                confidence |-> e.event.results[e.event.resultIndex].alts[i].confidence]],
          event |-> NoEvent]
    ELSE [tag |-> e.tag, alternatives |-> <<>>, event |-> e.event]

-----------------------------------------------------------------------------
(* subscribe: the listeners registered on the host session, in registration
   order, and their dispatch *)

NextListenersNoNomatch ==
  SelectSeq([i \in DOMAIN EventTypes |-> [type |-> EventTypes[i], handler |-> "next"]],
            LAMBDA l : l.type # "nomatch")

\* the members an observer may have, and the observers handed to subscribe
ObserverMembers == {"next", "error", "complete"}

FullObserver == ObserverMembers

Observers == {{}, {"next"}, FullObserver}

SubscriberUnguarded(observer) ==
  [m \in ObserverMembers |-> IF m \in observer THEN "observer" ELSE "missing"]

\* subscriber: each member is the observer's own, bound, or () => {} in its place
Subscriber(observer) ==
  [m \in ObserverMembers |-> IF m \in observer THEN "observer" ELSE "noop"]

NextListeners == [i \in DOMAIN EventTypes |-> [type |-> EventTypes[i], handler |-> "next"]]

CompleteListenerOnError == [type |-> "error", handler |-> "complete"]

CompleteListener == [type |-> "end", handler |-> "complete"]

SubscribeListenersCompleteFirst == <<CompleteListener>> \o NextListeners

SubscribeListeners == NextListeners \o <<CompleteListener>>

NextCall(v) == [call |-> "next", value |-> v]
CompleteCall == [call |-> "complete", value |-> toRecognitionEvent(Tagged(NoEvent, "none"))]

\* one listener's callback body, appended to the calls made on the observer
InvokeListener(l, e, calls) ==
  IF l.handler = "next"
    THEN Append(calls, NextCall(toRecognitionEvent(Tagged(e, l.type))))
    ELSE Append(calls, CompleteCall)

\* EventTarget dispatch: every listener registered for the event's type runs,
\* in registration order
RECURSIVE DispatchEvent(_, _, _)
DispatchEvent(ls, e, calls) ==
  IF ls = <<>> THEN calls
  ELSE DispatchEvent(Tail(ls), e,
         IF Head(ls).type = e.type THEN InvokeListener(Head(ls), e, calls) ELSE calls)

-----------------------------------------------------------------------------
(* listen: the promise and the two handlers assigned on the host session *)

PendingPromise == [state |-> "pending", value |-> "", reason |-> NoEvent]

Resolve(p, v) == IF p.state = "pending" THEN [p EXCEPT !.state = "fulfilled", !.value = v] ELSE p

Reject(p, r) == IF p.state = "pending" THEN [p EXCEPT !.state = "rejected", !.reason = r] ELSE p

ListenHandlersResolveOnError(e, p) ==
  IF e.type = "error" THEN Resolve(p, e.error)
  ELSE IF e.type = "result" THEN Resolve(p, e.results[e.resultIndex].alts[1].transcript)
  ELSE p

\* onerror: reject, onresult: e => resolve(e.results[e.resultIndex][0].transcript)
ListenHandlers(e, p) ==
  IF e.type = "error" THEN Reject(p, e)
  ELSE IF e.type = "result" THEN Resolve(p, e.results[e.resultIndex].alts[1].transcript)
  ELSE p

ListenConfigStored(options) ==
  [lang |-> options.lang, continuous |-> options.continuous,
   interimResults |-> options.interimResults]

\* the configuration fields listen assigns on the host session
ListenConfig(options) ==
  [lang |-> options.lang, continuous |-> FALSE, interimResults |-> FALSE]

SubscribeConfigLangOnly(options) == [lang |-> options.lang]

\* the configuration fields subscribe assigns on the host session
SubscribeConfig(options) == options

-----------------------------------------------------------------------------
(* Synthesis: options, voices, configurations *)

\* volume, rate and pitch are kept in tenths: 10 is 1.0, 1 is 0.1
DefaultSynthesisOptions == [text |-> "", volume |-> 10, rate |-> 10, pitch |-> 10]

voiceKeys == <<"lang", "localService", "name", "voiceURI">>

VoiceKeySet == {voiceKeys[i] : i \in DOMAIN voiceKeys}

Daniel == [lang |-> "en-GB", name |-> "Daniel", localService |-> TRUE, voiceURI |-> "Daniel"]

Albert == [lang |-> "en-US", name |-> "Albert", localService |-> TRUE, voiceURI |-> "Albert"]

GoogleUS ==
  [lang |-> "en-US", name |-> "Google US English", localService |-> FALSE,
   voiceURI |-> "Google US English"]

\* voice: (await this.getVoices())[0] of an empty list
NoVoice == [lang |-> "", name |-> "undefined", localService |-> FALSE, voiceURI |-> ""]

FullCatalog == <<Daniel, Albert, GoogleUS>>

\* the catalogs the host goes through as it loads voices
CatalogStages == << <<>>, <<Daniel>>, FullCatalog >>

Catalogs == {CatalogStages[i] : i \in DOMAIN CatalogStages}

\* an argument object of use / speak: keys holds the keys it has, the fields of
\* the keys it lacks are left at their filler value
EmptyConfig ==
  [keys |-> {}, text |-> "", volume |-> 0, rate |-> 0, pitch |-> 0,
   lang |-> "", name |-> "", voiceURI |-> "", localService |-> FALSE]

LangConfig(l) == [EmptyConfig EXCEPT !.keys = {"lang"}, !.lang = l]

TextConfig(t) == [EmptyConfig EXCEPT !.keys = {"text"}, !.text = t]

NumericConfig(v, r, p) ==
  [EmptyConfig EXCEPT !.keys = {"volume", "rate", "pitch"}, !.volume = v, !.rate = r, !.pitch = p]

\* arguments of the speak calls made side by side: a volume, a voice name
VolumeConfig == [EmptyConfig EXCEPT !.keys = {"volume"}, !.volume = 5]

NameConfig(n) == [EmptyConfig EXCEPT !.keys = {"name"}, !.name = n]

UseConfigs ==
  { LangConfig("en-US"),
    [EmptyConfig EXCEPT !.keys = {"lang", "localService"},
                        !.lang = "en-US", !.localService = FALSE],
    NumericConfig(50, 0, 25),
    [NumericConfig(5, 20, 15) EXCEPT !.keys = @ \cup {"text"}, !.text = "hello"] }

SpeakTexts == {"hi"}

SpeakOptions ==
  { [EmptyConfig EXCEPT !.keys = {"volume", "text"}, !.volume = 50, !.text = "yo"],
    [EmptyConfig EXCEPT !.keys = {"lang", "rate"}, !.lang = "en-GB", !.rate = -3],
    EmptyConfig }

MathMax(a, b) == IF a >= b THEN a ELSE b

MathMin(a, b) == IF a <= b THEN a ELSE b

clampUpperOnly(min, max, v) == MathMin(v, max)

\* clamp = (min, max) => v => Math.min(Math.max(v, min), max)
clamp(min, max, v) == MathMin(MathMax(v, min), max)

\* config[k] ?? fallback
Coalesce(config, k, fallback) == IF k \in config.keys THEN config[k] ELSE fallback

\* voiceKeys.filter(k => k in config).map(k => [k, config[k]])
voiceOptions(config) ==
  [keys |-> config.keys \cap VoiceKeySet,
   lang |-> Coalesce(config, "lang", ""),
   name |-> Coalesce(config, "name", ""),
   voiceURI |-> Coalesce(config, "voiceURI", ""),
   localService |-> Coalesce(config, "localService", FALSE)]

MatchesAny(voice, selector) == \E k \in selector.keys : selector[k] = voice[k]

\* voiceOptions.every(([k, v]) => v === voice[k])
Matches(voice, selector) == \A k \in selector.keys : selector[k] = voice[k]

\* JSON.stringify(Object.fromEntries(voiceOptions)): the entries in voiceKeys
\* order, each value as JSON text
JsonValue(selector, k) ==
  IF k = "localService" THEN (IF selector[k] THEN "true" ELSE "false")
  ELSE "\"" \o selector[k] \o "\""

StringifyEntries(selector) ==
  LET present == SelectSeq(voiceKeys, LAMBDA k : k \in selector.keys)
  IN [i \in DOMAIN present |-> [key |-> present[i], value |-> JsonValue(selector, present[i])]]

NoError == [text |-> "", options |-> <<>>]

ErrorMessage(selector) ==
  [text |-> "No voices found with the following options: ", options |-> StringifyEntries(selector)]

FilterVoices(voices, selector) == SelectSeq(voices, LAMBDA v : Matches(v, selector))

Resolution(ok, voices, error) == [ok |-> ok, voices |-> voices, error |-> error]

\* what one use-made resolver does with the voices its receiver's resolver gave
NarrowEmptyAllowed(inner, selector) ==
  IF ~inner.ok THEN inner
  ELSE Resolution(TRUE, FilterVoices(inner.voices, selector), NoError)

Narrow(inner, selector) ==
  LET voices == FilterVoices(inner.voices, selector)
  IN IF ~inner.ok THEN inner
     ELSE IF voices = <<>> THEN Resolution(FALSE, <<>>, ErrorMessage(selector))
     ELSE Resolution(TRUE, voices, NoError)

\* getVoices of an instance, given what getAllVoices resolved with: the resolver
\* of each use call awaits its receiver's resolver, then filters
GetVoicesFullCatalog(chain, all) ==
  IF chain = <<>> THEN Resolution(TRUE, all, NoError)
  ELSE Narrow(Resolution(TRUE, all, NoError), chain[Len(chain)])

RECURSIVE GetVoices(_, _)
GetVoices(chain, all) ==
  IF chain = <<>> THEN Resolution(TRUE, all, NoError)
  ELSE Narrow(GetVoices(SubSeq(chain, 1, Len(chain) - 1), all), chain[Len(chain)])

NewSynthesis(options, chain) == [options |-> options, chain |-> chain]

\* synthesis = new Synthesis({ volume: 1, rate: 1, pitch: 1, text: '' }, Synthesis.getAllVoices)
DefaultSynthesis == NewSynthesis(DefaultSynthesisOptions, <<>>)

UseResultUnclamped(this, config) ==
  NewSynthesis(
    [text |-> Coalesce(config, "text", this.options.text),
     volume |-> Coalesce(config, "volume", this.options.volume),
     rate |-> Coalesce(config, "rate", this.options.rate),
     pitch |-> Coalesce(config, "pitch", this.options.pitch)],
    Append(this.chain, voiceOptions(config)))

UseResultFromDefaults(this, config) ==
  NewSynthesis(
    [text |-> Coalesce(config, "text", DefaultSynthesisOptions.text),
     volume |-> clamp(0, 10, Coalesce(config, "volume", DefaultSynthesisOptions.volume)),
     rate |-> clamp(1, 100, Coalesce(config, "rate", DefaultSynthesisOptions.rate)),
     pitch |-> clamp(0, 20, Coalesce(config, "pitch", DefaultSynthesisOptions.pitch))],
    Append(this.chain, voiceOptions(config)))

\* the instance use(config) returns
UseResult(this, config) ==
  NewSynthesis(
    [text |-> Coalesce(config, "text", this.options.text),
     volume |-> clamp(0, 10, Coalesce(config, "volume", this.options.volume)),
     rate |-> clamp(1, 100, Coalesce(config, "rate", this.options.rate)),
     pitch |-> clamp(0, 20, Coalesce(config, "pitch", this.options.pitch))],
    Append(this.chain, voiceOptions(config)))

\* { ...args[1], text: args[0] }
OptionsFirst(options, text) == IF "text" \in options.keys THEN options ELSE
  [options EXCEPT !.keys = @ \cup {"text"}, !.text = text]

WithText(options, text) == [options EXCEPT !.keys = @ \cup {"text"}, !.text = text]

\* the instance whose zero-argument speak a speak call ends up running
SpeakTargetFromDefault(this, shape, text, options) ==
  IF shape = "text+options" THEN UseResult(DefaultSynthesis, WithText(options, text))
  ELSE IF shape = "text" THEN UseResult(DefaultSynthesis, TextConfig(text))
  ELSE IF shape = "options" THEN UseResult(this, options)
  ELSE this

SpeakTarget(this, shape, text, options) ==
  IF shape = "text+options" THEN UseResult(this, WithText(options, text))
  ELSE IF shape = "text" THEN UseResult(this, TextConfig(text))
  ELSE IF shape = "options" THEN UseResult(this, options)
  ELSE this

\* what the zero-argument form hands to speechSynthesis.speak
Utterance(job, target, voices) ==
  [job |-> job, text |-> target.options.text,
   voice |-> IF voices = <<>> THEN NoVoice ELSE voices[1],
   volume |-> target.options.volume, rate |-> target.options.rate,
   pitch |-> target.options.pitch, status |-> "queued"]

-----------------------------------------------------------------------------
(* State *)

NoUse == [inst |-> 0, arg |-> [k \in {} |-> TRUE], result |-> 0]

NewSession(kind, owner, assigned) ==
  [kind |-> kind, owner |-> owner,
   config |-> ObjectAssign(HostDefaults, assigned),
   host |-> "started", stopRequested |-> FALSE, stopCalls |-> 0,
   log |-> <<>>, calls |-> <<>>, promise |-> PendingPromise,
   observer |-> IF kind = "subscribe" THEN FullObserver ELSE {}]

\* host events dispatched and unsubscribe calls made so far, over all sessions
RECURSIVE TotalSteps(_)
TotalSteps(ss) ==
  IF ss = <<>> THEN 0 ELSE Len(Head(ss).log) + Head(ss).stopCalls + TotalSteps(Tail(ss))

NoSynthUse == [inst |-> 0, config |-> EmptyConfig, result |-> 0]

NewJob(receiver, shape, text, options, target, voices) ==
  [receiver |-> receiver, shape |-> shape, text |-> text, options |-> options,
   target |-> target,
   state |-> IF voices = <<>> THEN "waiting" ELSE "resolving",
   voices |-> voices, error |-> NoError, promise |-> "pending"]

InitRecognition ==
  /\ instances = <<DefaultOptions>>
  /\ lastUse = NoUse
  /\ sessions = <<>>

InitSynthesisFacade ==
  /\ synths = <<DefaultSynthesis>>
  /\ lastSynthUse = NoSynthUse
  /\ jobs = <<>>
  /\ utterances = <<>>

Init ==
  /\ InitRecognition
  /\ InitSynthesisFacade
  /\ catalog = FullCatalog

\* the host may have loaded none, some or all of its voices
InitSynthesis ==
  /\ InitRecognition
  /\ InitSynthesisFacade
  /\ catalog \in Catalogs

\* use = options => new Recognition({ ...this.options, ...options })
Use(i, p) ==
  /\ Len(instances) < MaxInstances
  /\ instances' = Append(instances, ObjectSpread(instances[i], p))
  /\ lastUse' = [inst |-> i, arg |-> p, result |-> Len(instances) + 1]
  /\ UNCHANGED <<sessions, synthesisVars>>

\* subscribe: new session with this.options assigned, listeners registered, start()
Subscribe(i) ==
  /\ sessions' = Append(sessions, NewSession("subscribe", i, SubscribeConfig(instances[i])))
  /\ UNCHANGED <<instances, lastUse, synthesisVars>>

\* subscribe called with an observer that may lack members
SubscribeWith(i, observer) ==
  /\ sessions' = Append(sessions,
       [NewSession("subscribe", i, SubscribeConfig(instances[i])) EXCEPT !.observer = observer])
  /\ UNCHANGED <<instances, lastUse, synthesisVars>>

\* listen: new session with lang and the one-shot flags assigned, start()
Listen(i) ==
  /\ sessions' = Append(sessions, NewSession("listen", i, ListenConfig(instances[i])))
  /\ UNCHANGED <<instances, lastUse, synthesisVars>>

\* what the library's handlers do with one host event on session s
Deliver(s, e) ==
  IF s.kind = "subscribe"
    THEN [s EXCEPT !.log = Append(@, e),
                   !.calls = DispatchEvent(SubscribeListeners, e, @)]
    ELSE [s EXCEPT !.log = Append(@, e),
                   !.promise = ListenHandlers(e, @)]

\* a host that follows the Web Speech lifecycle: events only between start and
\* end, interim results only if asked for, at most maxAlternatives alternatives
HostMayEmit(s, e) ==
  /\ s.host = "started"
  /\ e.type = "result" =>
       \A r \in DOMAIN e.results :
         /\ ~e.results[r].isFinal => s.config.interimResults
         /\ Len(e.results[r].alts) <= s.config.maxAlternatives

HostEmit(n, e) ==
  /\ TotalSteps(sessions) < MaxSteps
  /\ HostMayEmit(sessions[n], e)
  /\ sessions' = [sessions EXCEPT ![n] =
       [Deliver(@, e) EXCEPT !.host = IF e.type = "end" THEN "ended" ELSE @]]
  /\ UNCHANGED <<instances, lastUse, synthesisVars>>

\* a host that dispatches any event at any time on a started or ended session
HostEmitAny(n, e) ==
  /\ TotalSteps(sessions) < MaxSteps
  /\ sessions' = [sessions EXCEPT ![n] =
       [Deliver(@, e) EXCEPT !.host = IF e.type = "end" THEN "ended" ELSE @]]
  /\ UNCHANGED <<instances, lastUse, synthesisVars>>

\* the host's stop(): ignored unless the session is started
HostStop(s) ==
  [s EXCEPT !.stopCalls = @ + 1,
            !.stopRequested = IF s.host = "started" THEN TRUE ELSE @]

UnsubscribeAndComplete(n) ==
  /\ sessions[n].kind = "subscribe"
  /\ TotalSteps(sessions) < MaxSteps
  /\ sessions' = [sessions EXCEPT ![n] =
       [HostStop(@) EXCEPT !.calls = Append(@, CompleteCall)]]
  /\ UNCHANGED <<instances, lastUse, synthesisVars>>

UnsubscribeStopsAll(n) ==
  /\ sessions[n].kind = "subscribe"
  /\ TotalSteps(sessions) < MaxSteps
  /\ sessions' = [m \in DOMAIN sessions |-> HostStop(sessions[m])]
  /\ UNCHANGED <<instances, lastUse, synthesisVars>>

\* unsubscribe: () => recognition.stop()
Unsubscribe(n) ==
  /\ sessions[n].kind = "subscribe"
  /\ TotalSteps(sessions) < MaxSteps
  /\ sessions' = [sessions EXCEPT ![n] = HostStop(@)]
  /\ UNCHANGED <<instances, lastUse, synthesisVars>>

UseStep == \E i \in DOMAIN instances, p \in Overrides : Use(i, p)
SubscribeStep == Len(sessions) < MaxSessions /\ \E i \in DOMAIN instances : Subscribe(i)
ListenStep == Len(sessions) < MaxSessions /\ \E i \in DOMAIN instances : Listen(i)
HostEmitStep == \E n \in DOMAIN sessions, e \in HostEvents : HostEmit(n, e)
HostEmitAnyStep == \E n \in DOMAIN sessions, e \in HostEvents : HostEmitAny(n, e)
UnsubscribeStep == \E n \in DOMAIN sessions : Unsubscribe(n)

Next ==
  \/ UseStep
  \/ SubscribeStep
  \/ ListenStep
  \/ HostEmitStep
  \/ UnsubscribeStep

Spec == Init /\ [][Next]_vars

NextAnyHost ==
  \/ UseStep
  \/ SubscribeStep
  \/ ListenStep
  \/ HostEmitAnyStep
  \/ UnsubscribeStep

SpecAnyHost == Init /\ [][NextAnyHost]_vars

\* use also called with a key set to undefined
UseUndefinedStep == \E i \in DOMAIN instances, p \in UndefinedOverrides : Use(i, p)

NextOverrides ==
  \/ UseStep
  \/ UseUndefinedStep
  \/ SubscribeStep
  \/ ListenStep
  \/ HostEmitStep
  \/ UnsubscribeStep

SpecOverrides == Init /\ [][NextOverrides]_vars

\* subscriptions with partial observers, on a host that emits anything
SubscribeWithStep ==
  /\ Len(sessions) < MaxSessions
  /\ \E i \in DOMAIN instances, observer \in Observers : SubscribeWith(i, observer)

NextObservers ==
  \/ SubscribeWithStep
  \/ HostEmitAnyStep
  \/ UnsubscribeStep

SpecObservers == Init /\ [][NextObservers]_vars

\* several sessions opened on the default instance
SubscribeAgainStep == Len(sessions) < MaxOpen /\ Subscribe(1)
ListenAgainStep == Len(sessions) < MaxOpen /\ Listen(1)

NextSessions ==
  \/ SubscribeAgainStep
  \/ ListenAgainStep
  \/ HostEmitStep
  \/ UnsubscribeStep

SpecSessions == Init /\ [][NextSessions]_vars

-----------------------------------------------------------------------------
(* Synthesis operations *)

SynthUseEager(i, config) ==
  /\ Len(synths) < MaxSynths
  /\ GetVoices(UseResult(synths[i], config).chain, catalog).ok
  /\ synths' = Append(synths, UseResult(synths[i], config))
  /\ lastSynthUse' = [inst |-> i, config |-> config, result |-> Len(synths) + 1]
  /\ UNCHANGED <<catalog, jobs, utterances, recognitionVars>>

SynthUseInPlace(i, config) ==
  /\ Len(synths) < MaxSynths
  /\ synths' = Append([synths EXCEPT ![i] = UseResult(synths[i], config)],
                      UseResult(synths[i], config))
  /\ lastSynthUse' = [inst |-> i, config |-> config, result |-> Len(synths) + 1]
  /\ UNCHANGED <<catalog, jobs, utterances, recognitionVars>>

\* use = config => new Synthesis({...}, async () => {...})
SynthUse(i, config) ==
  /\ Len(synths) < MaxSynths
  /\ synths' = Append(synths, UseResult(synths[i], config))
  /\ lastSynthUse' = [inst |-> i, config |-> config, result |-> Len(synths) + 1]
  /\ UNCHANGED <<catalog, jobs, utterances, recognitionVars>>

\* resetVoice = () => new Synthesis(this.options, Synthesis.getAllVoices)
ResetVoice(i) ==
  /\ Len(synths) < MaxSynths
  /\ synths' = Append(synths, NewSynthesis(synths[i].options, <<>>))
  /\ UNCHANGED <<lastSynthUse, catalog, jobs, utterances, recognitionVars>>

SpeakCachedVoices(i, shape, text, options) ==
  /\ jobs' = Append(jobs,
       NewJob(i, shape, text, options, SpeakTarget(synths[i], shape, text, options),
              IF \E j \in DOMAIN jobs : jobs[j].receiver = i /\ jobs[j].voices # <<>>
                THEN jobs[CHOOSE j \in DOMAIN jobs :
                            jobs[j].receiver = i /\ jobs[j].voices # <<>>].voices
                ELSE catalog))
  /\ UNCHANGED <<synths, lastSynthUse, catalog, utterances, recognitionVars>>

\* speak(...args): the arguments are folded into an instance by use, and the
\* zero-argument form on it creates the promise and calls getVoices, which
\* reaches getAllVoices: it reads the catalog now and, if that is empty, waits
\* for 'voiceschanged'
Speak(i, shape, text, options) ==
  /\ jobs' = Append(jobs,
       NewJob(i, shape, text, options, SpeakTarget(synths[i], shape, text, options), catalog))
  /\ UNCHANGED <<synths, lastSynthUse, catalog, utterances, recognitionVars>>

ContinueSpeakSerialized(j) ==
  /\ jobs[j].state = "resolving"
  /\ \A k \in 1..(j - 1) : jobs[k].promise # "pending"
  /\ LET r == GetVoices(jobs[j].target.chain, jobs[j].voices)
     IN IF r.ok
          THEN /\ jobs' = [jobs EXCEPT ![j].state = "dispatched"]
               /\ utterances' = Append(utterances, Utterance(j, jobs[j].target, r.voices))
          ELSE /\ jobs' = [jobs EXCEPT ![j].state = "threw", ![j].error = r.error]
               /\ UNCHANGED utterances
  /\ UNCHANGED <<synths, lastSynthUse, catalog, recognitionVars>>

\* the continuation of the async executor after await this.getVoices(): the
\* resolvers filter; then either speechSynthesis.speak(utterance) runs, or a
\* resolver has thrown, which rejects the executor's own promise and leaves the
\* promise speak returned untouched
ContinueSpeak(j) ==
  /\ jobs[j].state = "resolving"
  /\ LET r == GetVoices(jobs[j].target.chain, jobs[j].voices)
     IN IF r.ok
          THEN /\ jobs' = [jobs EXCEPT ![j].state = "dispatched"]
               /\ utterances' = Append(utterances, Utterance(j, jobs[j].target, r.voices))
          ELSE /\ jobs' = [jobs EXCEPT ![j].state = "threw", ![j].error = r.error]
               /\ UNCHANGED utterances
  /\ UNCHANGED <<synths, lastSynthUse, catalog, recognitionVars>>

\* promise continuations run before the host's next event
NoContinuationPending == \A j \in DOMAIN jobs : jobs[j].state # "resolving"

CatalogStage(c) == CHOOSE i \in DOMAIN CatalogStages : CatalogStages[i] = c

VoicesChangedStaleVoices(c) ==
  /\ NoContinuationPending
  /\ CatalogStage(c) > CatalogStage(catalog)
  /\ catalog' = c
  /\ jobs' = [j \in DOMAIN jobs |->
       IF jobs[j].state = "waiting"
         THEN [jobs[j] EXCEPT !.state = "resolving"]
         ELSE jobs[j]]
  /\ UNCHANGED <<synths, lastSynthUse, utterances, recognitionVars>>

VoicesChangedLastWaiterOnly(c) ==
  /\ NoContinuationPending
  /\ CatalogStage(c) > CatalogStage(catalog)
  /\ catalog' = c
  /\ jobs' = [j \in DOMAIN jobs |->
       IF jobs[j].state = "waiting" /\ \A k \in DOMAIN jobs : k > j => jobs[k].state # "waiting"
         THEN [jobs[j] EXCEPT !.state = "resolving", !.voices = c]
         ELSE jobs[j]]
  /\ UNCHANGED <<synths, lastSynthUse, utterances, recognitionVars>>

\* the host signals 'voiceschanged': each waiting getAllVoices listener removes
\* itself and resolves with speechSynthesis.getVoices()
VoicesChanged(c) ==
  /\ NoContinuationPending
  /\ CatalogStage(c) > CatalogStage(catalog)
  /\ catalog' = c
  /\ jobs' = [j \in DOMAIN jobs |->
       IF jobs[j].state = "waiting"
         THEN [jobs[j] EXCEPT !.state = "resolving", !.voices = c]
         ELSE jobs[j]]
  /\ UNCHANGED <<synths, lastSynthUse, utterances, recognitionVars>>

\* the host speaks its queue in order
IsSpeaking(u) ==
  /\ utterances[u].status = "queued"
  /\ \A v \in 1..(u - 1) : utterances[v].status # "queued"

UtteranceEndResolvesAll(u) ==
  /\ NoContinuationPending
  /\ IsSpeaking(u)
  /\ utterances' = [utterances EXCEPT ![u].status = "ended"]
  /\ jobs' = [j \in DOMAIN jobs |->
       [jobs[j] EXCEPT !.promise = IF @ = "pending" THEN "fulfilled" ELSE @]]
  /\ UNCHANGED <<synths, lastSynthUse, catalog, recognitionVars>>

\* onend: resolve
UtteranceEnd(u) ==
  /\ NoContinuationPending
  /\ IsSpeaking(u)
  /\ utterances' = [utterances EXCEPT ![u].status = "ended"]
  /\ jobs' = [jobs EXCEPT ![utterances[u].job].promise =
       IF @ = "pending" THEN "fulfilled" ELSE @]
  /\ UNCHANGED <<synths, lastSynthUse, catalog, recognitionVars>>

UtteranceErrorRetries(u) ==
  /\ NoContinuationPending
  /\ IsSpeaking(u)
  /\ IF \A v \in DOMAIN utterances : v # u => utterances[v].job # utterances[u].job
       THEN /\ utterances' = Append([utterances EXCEPT ![u].status = "errored"], utterances[u])
            /\ UNCHANGED jobs
       ELSE /\ utterances' = [utterances EXCEPT ![u].status = "errored"]
            /\ jobs' = [jobs EXCEPT ![utterances[u].job].promise =
                 IF @ = "pending" THEN "rejected" ELSE @]
  /\ UNCHANGED <<synths, lastSynthUse, catalog, recognitionVars>>

\* onerror: reject
UtteranceError(u) ==
  /\ NoContinuationPending
  /\ IsSpeaking(u)
  /\ utterances' = [utterances EXCEPT ![u].status = "errored"]
  /\ jobs' = [jobs EXCEPT ![utterances[u].job].promise =
       IF @ = "pending" THEN "rejected" ELSE @]
  /\ UNCHANGED <<synths, lastSynthUse, catalog, recognitionVars>>

\* use called with the receiver's own stored numbers
OwnNumericConfig(this) ==
  NumericConfig(this.options.volume, this.options.rate, this.options.pitch)

SynthUseStep ==
  \E i \in DOMAIN synths :
    \E config \in UseConfigs \cup {OwnNumericConfig(synths[i])} : SynthUse(i, config)
ResetVoiceStep == \E i \in DOMAIN synths : ResetVoice(i)
SpeakStep ==
  /\ Len(jobs) < MaxJobs
  /\ \E i \in DOMAIN synths :
    \/ Speak(i, "none", "", EmptyConfig)
    \/ \E options \in SpeakOptions : Speak(i, "options", "", options)
    \/ \E text \in SpeakTexts : Speak(i, "text", text, EmptyConfig)
    \/ \E text \in SpeakTexts, options \in SpeakOptions : Speak(i, "text+options", text, options)
ContinueSpeakStep == \E j \in DOMAIN jobs : ContinueSpeak(j)
VoicesChangedStep == \E c \in Catalogs : VoicesChanged(c)
UtteranceEndStep == \E u \in DOMAIN utterances : UtteranceEnd(u)
UtteranceErrorStep == \E u \in DOMAIN utterances : UtteranceError(u)

NextSynthesis ==
  \/ SynthUseStep
  \/ ResetVoiceStep
  \/ SpeakStep
  \/ ContinueSpeakStep
  \/ VoicesChangedStep
  \/ UtteranceEndStep
  \/ UtteranceErrorStep

SpecSynthesis == InitSynthesis /\ [][NextSynthesis]_vars

\* several speak calls, on the default instance and on instances narrowed to
\* one language
NarrowStep == \E i \in DOMAIN synths : SynthUse(i, LangConfig("en-US"))
SpeakAgainStep ==
  /\ Len(jobs) < MaxCalls
  /\ \E i \in DOMAIN synths :
       \/ Speak(i, "none", "", EmptyConfig)
       \/ \E text \in SpeakTexts : Speak(i, "text", text, EmptyConfig)
       \/ \E text \in SpeakTexts : Speak(i, "text+options", text, VolumeConfig)
       \/ Speak(i, "options", "", NameConfig("Google US English"))

NextSpeakCalls ==
  \/ NarrowStep
  \/ SpeakAgainStep
  \/ ContinueSpeakStep
  \/ VoicesChangedStep
  \/ UtteranceEndStep
  \/ UtteranceErrorStep

SpecSpeakCalls == InitSynthesis /\ [][NextSpeakCalls]_vars

-----------------------------------------------------------------------------
(* Speak calls made in one turn: the order of their continuations *)

\* the promises between getAllVoices and the zero-argument speak's await: one
\* async resolver for each use call behind the instance, each settling one
\* microtask after the one it awaits
MicrotaskDepth(j) == Len(jobs[j].target.chain)

\* the microtask queue is first in, first out: of the calls whose voices have
\* resolved, the one with the fewest promises to go through continues first,
\* the earlier call first among equals
RunsNext(j) ==
  /\ jobs[j].state = "resolving"
  /\ \A k \in DOMAIN jobs \ {j} :
       jobs[k].state = "resolving" =>
         \/ MicrotaskDepth(j) < MicrotaskDepth(k)
         \/ MicrotaskDepth(j) = MicrotaskDepth(k) /\ j < k

ContinueInTurn(j) == RunsNext(j) /\ ContinueSpeak(j)

\* a further speak call of the turn: no continuation has run yet
SpeakInTurnStep ==
  /\ Len(jobs) < MaxCalls
  /\ \A j \in DOMAIN jobs : jobs[j].state \in {"waiting", "resolving"}
  /\ \E i \in DOMAIN synths :
       \/ Speak(i, "none", "", EmptyConfig)
       \/ \E text \in SpeakTexts : Speak(i, "text", text, EmptyConfig)
       \/ \E text \in SpeakTexts : Speak(i, "text+options", text, VolumeConfig)
       \/ Speak(i, "options", "", NameConfig("Google US English"))

ContinueInTurnStep == \E j \in DOMAIN jobs : ContinueInTurn(j)

NextSameTurn ==
  \/ NarrowStep
  \/ SpeakInTurnStep
  \/ ContinueInTurnStep
  \/ VoicesChangedStep

SpecSameTurn == InitSynthesis /\ [][NextSameTurn]_vars

-----------------------------------------------------------------------------
(* The loop listen().then(synthesis.speak).then(listenAndRepeat) *)

\* then(synthesis.speak): the listen promise is fulfilled and speak not yet called
SpeakDue ==
  /\ Len(jobs) < Len(sessions)
  /\ sessions[Len(sessions)].promise.state = "fulfilled"

\* then(listenAndRepeat): the speak promise is fulfilled and listen not yet called
ListenDue ==
  /\ jobs # <<>>
  /\ Len(sessions) = Len(jobs)
  /\ jobs[Len(jobs)].promise = "fulfilled"

\* the click that starts the loop, and each then(listenAndRepeat)
LoopListen ==
  /\ Len(sessions) < MaxLoops
  /\ sessions = <<>> \/ ListenDue
  /\ Listen(1)

\* synthesis.speak called with the transcript as its only argument
LoopSpeak ==
  /\ SpeakDue
  /\ Speak(1, "text", sessions[Len(sessions)].promise.value, EmptyConfig)

\* promise reactions run before the host's next event
LoopReactionPending ==
  \/ SpeakDue
  \/ ~NoContinuationPending
  \/ ListenDue /\ Len(sessions) < MaxLoops

LoopHostEmitStep == ~LoopReactionPending /\ HostEmitStep
LoopVoicesChangedStep == ~LoopReactionPending /\ VoicesChangedStep
LoopUtteranceEndStep == ~LoopReactionPending /\ UtteranceEndStep
LoopUtteranceErrorStep == ~LoopReactionPending /\ UtteranceErrorStep

NextLoop ==
  \/ LoopListen
  \/ LoopSpeak
  \/ ContinueSpeakStep
  \/ LoopHostEmitStep
  \/ LoopVoicesChangedStep
  \/ LoopUtteranceEndStep
  \/ LoopUtteranceErrorStep

SpecLoop == InitSynthesis /\ [][NextLoop]_vars

-----------------------------------------------------------------------------
(* Properties *)

Subscriptions == {n \in DOMAIN sessions : sessions[n].kind = "subscribe"}

Listens == {n \in DOMAIN sessions : sessions[n].kind = "listen"}

IsTerminalCall(c) == c.call \in {"complete", "error"}

TerminalCalls(calls) == {i \in DOMAIN calls : IsTerminalCall(calls[i])}

NextValues(calls) ==
  LET nexts == SelectSeq(calls, LAMBDA c : c.call = "next")
  IN [i \in DOMAIN nexts |-> nexts[i].value]

IsFinalResult(e) == e.type = "result" /\ e.results[e.resultIndex].isFinal

TopTranscript(e) == e.results[e.resultIndex].alts[1].transcript

\* C1: on a subscription, no next call follows a complete or error call.
C1_NoNextAfterTerminal ==
  \A n \in Subscriptions :
    \A i, j \in DOMAIN sessions[n].calls :
      (i < j /\ IsTerminalCall(sessions[n].calls[i])) => sessions[n].calls[j].call # "next"

C1_Witness ==
  \E n \in Subscriptions :
    /\ Len(sessions[n].log) = 2
    /\ sessions[n].log[2].type = "end"
    /\ Len(sessions[n].calls) = 3
    /\ sessions[n].calls[3].call = "complete"

\* C2: once the host has signalled 'error' on a subscribed session, the
\* observer's error callback has been invoked.
C2_ErrorCallbackInvoked ==
  \A n \in Subscriptions :
    (\E i \in DOMAIN sessions[n].log : sessions[n].log[i].type = "error")
      => \E j \in DOMAIN sessions[n].calls : sessions[n].calls[j].call = "error"

\* C3: on a subscription, whatever the host signals (an 'end' after an
\* 'error', 'end' more than once), error and complete are invoked at most once
\* in total and no callback follows that invocation.
C3_AtMostOneTerminalCall ==
  \A n \in Subscriptions :
    /\ Cardinality(TerminalCalls(sessions[n].calls)) <= 1
    /\ \A i \in TerminalCalls(sessions[n].calls) : i = Len(sessions[n].calls)

\* C4: the values passed to next are the normalised host events of the
\* session, one per host event, in the host's order.
C4_NextIsImageOfHostEvents ==
  \A n \in Subscriptions :
    NextValues(sessions[n].calls) =
      [i \in DOMAIN sessions[n].log |->
         toRecognitionEvent(Tagged(sessions[n].log[i], sessions[n].log[i].type))]

C4_Witness ==
  \E n \in Subscriptions :
    /\ Len(sessions[n].log) = 2
    /\ sessions[n].log[1].type = "nomatch"
    /\ sessions[n].log[2].type = "result"
    /\ Len(NextValues(sessions[n].calls)) = 2

\* C5 (as claimed): the host stop control is invoked at most once per
\* subscription, however often unsubscribe is called.
C5_StopInvokedAtMostOnce ==
  \A n \in Subscriptions : sessions[n].stopCalls <= 1

\* C5 (amended): every unsubscribe call invokes the host stop control exactly
\* once and does nothing else: no observer callback is made, and a repeated
\* call, or a call on an ended session, leaves the host session as it was.
C5_UnsubscribeOnlyStops ==
  [][\A n \in DOMAIN sessions :
       (n \in DOMAIN sessions' /\ sessions'[n].stopCalls # sessions[n].stopCalls) =>
         /\ sessions'[n].stopCalls = sessions[n].stopCalls + 1
         /\ sessions'[n].calls = sessions[n].calls
         /\ sessions'[n].log = sessions[n].log
         /\ sessions'[n].host = sessions[n].host
         /\ (sessions[n].stopCalls >= 1 \/ sessions[n].host = "ended") =>
              sessions'[n] = [sessions[n] EXCEPT !.stopCalls = @ + 1]]_vars

C5_Witness ==
  \E n \in Subscriptions : sessions[n].stopCalls = 2

\* C6: a listen promise is fulfilled only by a final result, with the top
\* transcript of the first final result of its session; later results leave
\* the value alone, and a final result with no error before it fulfils it.
C6_ListenResolvesFirstFinal ==
  \A n \in Listens :
    LET log == sessions[n].log
        finals == {i \in DOMAIN log : IsFinalResult(log[i])}
        first == CHOOSE i \in finals : \A j \in finals : i <= j
    IN /\ sessions[n].promise.state = "fulfilled" =>
            /\ finals # {}
            /\ sessions[n].promise.value = TopTranscript(log[first])
       /\ (finals # {} /\ \A j \in 1..(first - 1) : log[j].type # "error") =>
            sessions[n].promise.state = "fulfilled"

C6_Witness ==
  \E n \in Listens :
    /\ Len(sessions[n].log) = 2
    /\ IsFinalResult(sessions[n].log[1])
    /\ IsFinalResult(sessions[n].log[2])
    /\ TopTranscript(sessions[n].log[1]) # TopTranscript(sessions[n].log[2])
    /\ sessions[n].promise.state = "fulfilled"
    /\ sessions[n].promise.value = TopTranscript(sessions[n].log[1])

\* C7: a listen promise whose session's first result-or-error event is an
\* error is rejected with that error event; when it is a result, the promise
\* is fulfilled and a later error does not change that.
C7_ListenRejectsOnError ==
  \A n \in Listens :
    LET log == sessions[n].log
        settling == {i \in DOMAIN log : log[i].type \in {"error", "result"}}
        first == CHOOSE i \in settling : \A j \in settling : i <= j
    IN settling # {} =>
         IF log[first].type = "error"
           THEN /\ sessions[n].promise.state = "rejected"
                /\ sessions[n].promise.reason = log[first]
           ELSE sessions[n].promise.state = "fulfilled"

C7_Witness ==
  \E n \in Listens :
    /\ Len(sessions[n].log) = 2
    /\ sessions[n].log[1].type = "error"
    /\ sessions[n].log[2].type = "result"
    /\ sessions[n].promise.state = "rejected"
    /\ sessions[n].promise.reason.error = "not-allowed"

\* C8: a listen session is configured with continuous = false, interimResults
\* = false and the stored lang; a subscribe session with the four stored fields.
C8_SessionConfiguration ==
  \A n \in DOMAIN sessions :
    LET stored == instances[sessions[n].owner]
        config == sessions[n].config
    IN IF sessions[n].kind = "listen"
         THEN /\ config.continuous = FALSE
              /\ config.interimResults = FALSE
              /\ config.lang = stored.lang
         ELSE \A k \in Keys : config[k] = stored[k]

C8_Witness ==
  /\ \E n \in Listens :
       /\ instances[sessions[n].owner].interimResults
       /\ ~sessions[n].config.interimResults
       /\ sessions[n].config.lang = "en-US"

C10_ResultTagFollowsFinality ==
  \A n \in Subscriptions :
    LET nexts == NextValues(sessions[n].calls)
    IN \A i \in DOMAIN sessions[n].log :
         sessions[n].log[i].type = "result" =>
           /\ i \in DOMAIN nexts
           /\ nexts[i].tag = IF sessions[n].log[i].results[sessions[n].log[i].resultIndex].isFinal
                               THEN "final" ELSE "interim"

C10_Witness ==
  \E n \in Subscriptions :
    \E i \in DOMAIN sessions[n].log :
      /\ sessions[n].log[i].type = "result"
      /\ sessions[n].log[i].results[1].isFinal
      /\ ~sessions[n].log[i].results[sessions[n].log[i].resultIndex].isFinal
      /\ NextValues(sessions[n].calls)[i].tag = "interim"

Min(a, b) == IF a <= b THEN a ELSE b

HostAlternatives(e) == e.results[e.resultIndex].alts

C12_TagsOfDeliveredEvents ==
  \A n \in Subscriptions :
    LET nexts == NextValues(sessions[n].calls)
    IN /\ \A i \in DOMAIN nexts : nexts[i].tag # "result"
       /\ \A i \in DOMAIN sessions[n].log :
            /\ i \in DOMAIN nexts
            /\ IF sessions[n].log[i].type = "result"
                 THEN nexts[i].tag \in {"interim", "final"}
                 ELSE /\ nexts[i].tag = sessions[n].log[i].type
                      /\ nexts[i].event = sessions[n].log[i]

C12_Witness ==
  \E n \in Subscriptions :
    /\ Len(sessions[n].log) = 2
    /\ sessions[n].log[1].type = "result"
    /\ sessions[n].log[2].type = "error"
    /\ NextValues(sessions[n].calls)[1].tag = "final"
    /\ NextValues(sessions[n].calls)[2].tag = "error"

-----------------------------------------------------------------------------
(* Synthesis: what speak calls did *)

\* the speak calls whose voice resolution has run
Resolved == {j \in DOMAIN jobs : jobs[j].state \in {"threw", "dispatched"}}

\* the utterances a speak call handed to the host
UtterancesOf(j) == {u \in DOMAIN utterances : utterances[u].job = j}

HasAttributes(voice, selector) == \A k \in selector.keys : voice[k] = selector[k]

\* the voices of a list that have the attributes of every selector of a chain
MatchingAll(voices, chain) ==
  SelectSeq(voices, LAMBDA v : \A n \in DOMAIN chain : HasAttributes(v, chain[n]))

\* the first selector of a chain that leaves no voice
FirstEmptying(voices, chain) ==
  CHOOSE n \in DOMAIN chain :
    /\ MatchingAll(voices, SubSeq(chain, 1, n)) = <<>>
    /\ \A m \in 1..(n - 1) : MatchingAll(voices, SubSeq(chain, 1, m)) # <<>>

\* an error message lists exactly the attributes of a selector
CarriesSelector(error, selector) ==
  /\ {error.options[i].key : i \in DOMAIN error.options} = selector.keys
  /\ \A i \in DOMAIN error.options :
       error.options[i].value = JsonValue(selector, error.options[i].key)

\* C13: when voice resolution fails at speak time, the promise speak returned
\* is rejected and no utterance is enqueued on the host.
C13_SpeakRejectsWhenResolutionFails ==
  \A j \in DOMAIN jobs :
    jobs[j].state = "threw" =>
      /\ jobs[j].promise = "rejected"
      /\ UtterancesOf(j) = {}

\* C14: when the voices a use-made resolver receives hold none with the
\* attributes of its selector, the resolution fails with an error whose
\* message lists that selector's attributes, and nothing is dispatched: a
\* dispatched utterance always carries a voice of the catalog.
C14_NoMatchFailsWithSelector ==
  \A j \in Resolved :
    LET chain == jobs[j].target.chain
        all == jobs[j].voices
    IN IF MatchingAll(all, chain) = <<>>
         THEN /\ jobs[j].state = "threw"
              /\ jobs[j].error.text = "No voices found with the following options: "
              /\ CarriesSelector(jobs[j].error, chain[FirstEmptying(all, chain)])
              /\ UtterancesOf(j) = {}
         ELSE /\ jobs[j].state = "dispatched"
              /\ \A u \in UtterancesOf(j) :
                   \E n \in DOMAIN all : utterances[u].voice = all[n]

C14_Witness ==
  \E j \in DOMAIN jobs :
    /\ jobs[j].state = "threw"
    /\ jobs[j].voices = <<Daniel>>
    /\ jobs[j].shape = "none"
    /\ Len(jobs[j].target.chain) = 1
    /\ jobs[j].target.chain[1].keys = {"lang", "localService"}
    /\ Len(jobs[j].error.options) = 2

\* the selector a speak call adds to its receiver's, and the receiver's own
AddedSelector(j) == jobs[j].target.chain[Len(jobs[j].target.chain)]

ReceiverChain(j) == synths[jobs[j].receiver].chain

\* the speak calls that derive an instance c.use(s) from their receiver c
Deriving == {j \in Resolved : jobs[j].shape # "none"}

\* C15 (as claimed): the resolver of c.use(s) filters the full catalog by s
\* alone, whatever c was narrowed to.
C15_UseFiltersFullCatalog ==
  \A j \in Deriving :
    LET kept == MatchingAll(jobs[j].voices, <<AddedSelector(j)>>)
    IN IF kept = <<>> THEN jobs[j].state = "threw"
       ELSE /\ jobs[j].state = "dispatched"
            /\ \A u \in UtterancesOf(j) : utterances[u].voice = kept[1]

\* C15 (amended): the resolver of c.use(s) filters by s the voices c's resolver
\* yields, so it keeps the voices of the catalog that have the attributes of
\* c's selectors and of s, and fails when there is none.
C15_UseNarrowsReceiverVoices ==
  \A j \in Deriving :
    LET ofReceiver == MatchingAll(jobs[j].voices, ReceiverChain(j))
        kept == MatchingAll(ofReceiver, <<AddedSelector(j)>>)
    IN IF kept = <<>> THEN jobs[j].state = "threw"
       ELSE /\ jobs[j].state = "dispatched"
            /\ \A u \in UtterancesOf(j) : utterances[u].voice = kept[1]

C15_Witness ==
  \E j \in Deriving :
    /\ jobs[j].state = "threw"
    /\ jobs[j].voices = FullCatalog
    /\ ReceiverChain(j) = <<voiceOptions(LangConfig("en-US"))>>
    /\ AddedSelector(j).keys = {"lang"}
    /\ AddedSelector(j).lang = "en-GB"

\* the position of a dispatched voice in the catalog the speak call read
PositionIn(voices, voice) == CHOOSE n \in DOMAIN voices : voices[n] = voice

\* C16: the voice of a dispatched utterance has every attribute its instance's
\* selectors provide, and every voice before it in catalog order lacks one.
C16_FirstVoiceWithEveryAttribute ==
  \A u \in DOMAIN utterances :
    LET j == utterances[u].job
        chain == jobs[j].target.chain
        all == jobs[j].voices
        voice == utterances[u].voice
    IN /\ \E n \in DOMAIN all : all[n] = voice
       /\ \A n \in DOMAIN chain : \A k \in chain[n].keys : voice[k] = chain[n][k]
       /\ \A m \in 1..(PositionIn(all, voice) - 1) :
            \E n \in DOMAIN chain : \E k \in chain[n].keys : all[m][k] # chain[n][k]

C16_Witness ==
  \E u \in DOMAIN utterances :
    /\ utterances[u].voice = GoogleUS
    /\ jobs[utterances[u].job].voices = FullCatalog
    /\ jobs[utterances[u].job].target.chain[1].keys = {"lang", "localService"}

\* the documented domains of the numeric options, in tenths
Domain ==
  [volume |-> [min |-> 0, max |-> 10],
   rate |-> [min |-> 1, max |-> 100],
   pitch |-> [min |-> 0, max |-> 20]]

NumericKeys == {"volume", "rate", "pitch"}

InDomain(k, v) == Domain[k].min <= v /\ v <= Domain[k].max

\* the value itself inside the domain, the boundary on its side outside of it
NearestInDomain(k, v) ==
  IF v < Domain[k].min THEN Domain[k].min
  ELSE IF v > Domain[k].max THEN Domain[k].max
  ELSE v

\* C17: the instance a use call returns stores, for each numeric option the
\* call provides, the input when it lies in the option's domain and the
\* nearest boundary of the domain otherwise; the call always returns an
\* instance.
C17_StoredNumbersClamped ==
  lastSynthUse.inst # 0 =>
    /\ lastSynthUse.result \in DOMAIN synths
    /\ \A k \in NumericKeys \cap lastSynthUse.config.keys :
         synths[lastSynthUse.result].options[k] = NearestInDomain(k, lastSynthUse.config[k])

C17_Witness ==
  /\ lastSynthUse.inst # 0
  /\ lastSynthUse.config = NumericConfig(50, 0, 25)
  /\ synths[lastSynthUse.result].options.volume = 10
  /\ synths[lastSynthUse.result].options.rate = 1
  /\ synths[lastSynthUse.result].options.pitch = 20

\* C18: every utterance handed to the host has volume, rate and pitch inside
\* their domains; speak('hi', {volume: 5}) dispatches volume 1.
C18_DispatchedNumbersInDomain ==
  \A u \in DOMAIN utterances :
    /\ \A k \in NumericKeys : InDomain(k, utterances[u][k])
    /\ LET job == jobs[utterances[u].job]
       IN (job.shape = "text+options" /\ "volume" \in job.options.keys
             /\ job.options.volume = 50)
            => utterances[u].volume = 10

C18_Witness ==
  \E u \in DOMAIN utterances :
    /\ jobs[utterances[u].job].shape = "text+options"
    /\ jobs[utterances[u].job].text = "hi"
    /\ jobs[utterances[u].job].options.volume = 50
    /\ utterances[u].volume = 10

NumbersAndText(options) == <<options.text, options.volume, options.rate, options.pitch>>

\* C19: for every instance c, use({}) and use of c's own stored numbers give
\* c's text, volume, rate and pitch again, in use calls and in the speak calls
\* that derive through use.
C19_UseOfOwnValuesChangesNothing ==
  /\ \A i \in DOMAIN synths :
       /\ NumbersAndText(UseResult(synths[i], EmptyConfig).options)
            = NumbersAndText(synths[i].options)
       /\ NumbersAndText(UseResult(synths[i], OwnNumericConfig(synths[i])).options)
            = NumbersAndText(synths[i].options)
  /\ (lastSynthUse.inst # 0
        /\ lastSynthUse.config \in {EmptyConfig, OwnNumericConfig(synths[lastSynthUse.inst])})
       => NumbersAndText(synths[lastSynthUse.result].options)
            = NumbersAndText(synths[lastSynthUse.inst].options)
  /\ \A j \in DOMAIN jobs :
       (jobs[j].shape = "options" /\ jobs[j].options = EmptyConfig)
         => NumbersAndText(jobs[j].target.options)
              = NumbersAndText(synths[jobs[j].receiver].options)

C19_Witness ==
  \E j \in DOMAIN jobs :
    /\ jobs[j].shape = "options"
    /\ jobs[j].options = EmptyConfig
    /\ lastSynthUse.result = jobs[j].receiver
    /\ lastSynthUse.config = NumericConfig(50, 0, 25)
    /\ NumbersAndText(jobs[j].target.options) = <<"", 10, 1, 20>>

\* the instance the claim derives for a speak call: use(opts), use({text}),
\* use({...opts, text}), or the receiver itself
Derived(j) ==
  LET c == synths[jobs[j].receiver]
      opts == jobs[j].options
  IN CASE jobs[j].shape = "options" -> UseResult(c, opts)
       [] jobs[j].shape = "text" -> UseResult(c, TextConfig(jobs[j].text))
       [] jobs[j].shape = "text+options" ->
            UseResult(c, [opts EXCEPT !.keys = @ \cup {"text"}, !.text = jobs[j].text])
       [] OTHER -> c

\* C20: a speak call runs the zero-argument form on the instance derived from
\* its arguments, the text argument winning over the options' text: the
\* utterance has the derived instance's text, numbers and first voice, and the
\* promise settles with the utterance.
C20_SpeakShapesDeriveThenSpeak ==
  \A j \in DOMAIN jobs :
    /\ jobs[j].target = Derived(j)
    /\ jobs[j].shape \in {"text", "text+options"} => jobs[j].target.options.text = jobs[j].text
    /\ \A u \in UtterancesOf(j) :
         /\ NumbersAndText(utterances[u]) = NumbersAndText(Derived(j).options)
         /\ utterances[u].voice = MatchingAll(jobs[j].voices, Derived(j).chain)[1]
         /\ utterances[u].status = "ended" <=> jobs[j].promise = "fulfilled"
         /\ utterances[u].status = "errored" <=> jobs[j].promise = "rejected"
    /\ UtterancesOf(j) = {} => jobs[j].promise = "pending"

C20_Witness ==
  \E u \in DOMAIN utterances :
    LET job == jobs[utterances[u].job]
    IN /\ job.shape = "text+options"
       /\ job.text = "hi"
       /\ "text" \in job.options.keys
       /\ job.options.text = "yo"
       /\ utterances[u].text = "hi"
       /\ utterances[u].status = "ended"
       /\ job.promise = "fulfilled"

\* C21: the promise of a speak call is fulfilled only once the host has
\* reported the end of the utterance that call enqueued, never before and
\* never by the end of another call's utterance.
C21_ResolvesOnlyOnOwnUtteranceEnd ==
  \A j \in DOMAIN jobs :
    jobs[j].promise = "fulfilled" =>
      \E u \in UtterancesOf(j) : utterances[u].status = "ended"

C21_Witness ==
  /\ Len(jobs) = 2
  /\ Len(utterances) = 2
  /\ utterances[1].status = "ended"
  /\ utterances[2].status = "queued"
  /\ jobs[utterances[1].job].promise = "fulfilled"
  /\ jobs[utterances[2].job].promise = "pending"

\* C22: when the host reports an error for the utterance of a speak call, the
\* call's promise is rejected, and the host is asked to speak at most once for
\* each call.
C22_HostErrorRejectsWithoutRetry ==
  /\ \A u \in DOMAIN utterances :
       utterances[u].status = "errored" => jobs[utterances[u].job].promise = "rejected"
  /\ \A j \in DOMAIN jobs : Cardinality(UtterancesOf(j)) <= 1

C22_Witness ==
  \E u \in DOMAIN utterances :
    /\ utterances[u].status = "errored"
    /\ jobs[utterances[u].job].promise = "rejected"
    /\ UtterancesOf(utterances[u].job) = {u}

\* C23: the library does not serialize speak calls: the continuation of a call
\* can always run, whatever the other calls' promises, so its utterance is
\* enqueued while earlier ones are unfinished; each promise settles from the
\* report on its own utterance.
C23_SpeakCallsNotSerialized ==
  \A j \in DOMAIN jobs :
    /\ jobs[j].state = "resolving" => ENABLED ContinueSpeak(j)
    /\ jobs[j].state = "dispatched" => Cardinality(UtterancesOf(j)) = 1
    /\ jobs[j].promise = "fulfilled" <=> \E u \in UtterancesOf(j) : utterances[u].status = "ended"
    /\ jobs[j].promise = "rejected" <=> \E u \in UtterancesOf(j) : utterances[u].status = "errored"

C23_Witness ==
  /\ Len(utterances) = 2
  /\ utterances[1].job # utterances[2].job
  /\ utterances[1].status = "queued"
  /\ utterances[2].status = "queued"
  /\ \A j \in DOMAIN jobs : jobs[j].promise = "pending"

\* C24: a getAllVoices call made while the catalog is non-empty resolves at
\* once with that catalog; one made while it is empty waits, untouched, until
\* the next 'voiceschanged' and then resolves with the catalog of that moment.
C24_GetAllVoicesWaitsOnlyWhenEmpty ==
  [][\A j \in DOMAIN jobs' :
       IF j \notin DOMAIN jobs
         THEN IF catalog # <<>>
                THEN jobs'[j].state = "resolving" /\ jobs'[j].voices = catalog
                ELSE jobs'[j].state = "waiting"
         ELSE jobs[j].state = "waiting" =>
                IF catalog' # catalog
                  THEN jobs'[j].state = "resolving" /\ jobs'[j].voices = catalog'
                  ELSE jobs'[j] = jobs[j]]_vars

C24_Witness ==
  \E j \in DOMAIN jobs :
    /\ jobs[j].state = "waiting"
    /\ catalog = <<>>
    /\ jobs[j].promise = "pending"

\* C25: use and resetVoice can always be called and succeed, whatever the
\* catalog holds, and the instances they return carry options and selectors
\* only; a selector matching no voice shows only when a speak call's
\* resolution runs.
C25_UseAndResetVoiceAreLazy ==
  /\ Len(synths) < MaxSynths =>
       \A i \in DOMAIN synths :
         /\ ENABLED ResetVoice(i)
         /\ \A config \in UseConfigs : ENABLED SynthUse(i, config)
  /\ \A i \in DOMAIN synths : DOMAIN synths[i] = {"options", "chain"}
  /\ \A j \in DOMAIN jobs : jobs[j].error # NoError => jobs[j].state = "threw"

C25_Witness ==
  \E j \in DOMAIN jobs :
    /\ jobs[j].state = "threw"
    /\ jobs[j].shape = "none"
    /\ jobs[j].voices = <<Daniel>>
    /\ lastSynthUse.result = jobs[j].receiver
    /\ lastSynthUse.config = LangConfig("en-US")

\* C26: every speak call reads the host catalog anew: a call whose resolution
\* is about to run holds the catalog as it is now, also when an earlier call
\* on the same instance read another one.
C26_CatalogReadOnEverySpeak ==
  \A j \in DOMAIN jobs : jobs[j].state = "resolving" => jobs[j].voices = catalog

C26_Witness ==
  \E j, k \in DOMAIN jobs :
    /\ j < k
    /\ jobs[j].receiver = jobs[k].receiver
    /\ jobs[j].voices = <<Daniel>>
    /\ jobs[j].state = "threw"
    /\ jobs[k].voices = FullCatalog
    /\ jobs[k].state = "dispatched"
    /\ \E u \in UtterancesOf(k) : utterances[u].voice = Albert

\* C27: no operation changes an existing instance: its options and its
\* selectors, which fix the voices its resolver yields for a catalog, stay as
\* they were, and the default instance keeps its options and the full catalog.
C27_ReceiverNeverMutated ==
  [][/\ \A i \in DOMAIN synths :
          /\ i \in DOMAIN synths'
          /\ synths'[i].options = synths[i].options
          /\ synths'[i].chain = synths[i].chain
     /\ synths'[1].options = DefaultSynthesisOptions
     /\ \A c \in Catalogs : GetVoices(synths'[1].chain, c).voices = c]_vars

C27_Witness ==
  /\ lastSynthUse.inst = 1
  /\ lastSynthUse.config = NumericConfig(50, 0, 25)
  /\ \E j \in DOMAIN jobs :
       /\ jobs[j].receiver = 1
       /\ jobs[j].shape = "text+options"
       /\ jobs[j].state = "dispatched"
  /\ synths[1] = DefaultSynthesis

-----------------------------------------------------------------------------
(* Recognition: sessions side by side, and the end of a session *)

\* what a session's observer or promise has received
Received(s) == <<s.calls, s.promise>>

\* C28: every subscribe or listen call adds a session of its own, started and
\* with nothing received, and leaves the others as they are; a step changes
\* one session at most, so an unsubscribe stops only its own session; what a
\* call receives changes only with a host event on its own session.
C28_SessionsAreIndependent ==
  [][/\ \A n \in DOMAIN sessions : n \in DOMAIN sessions'
     /\ \A n \in DOMAIN sessions' \ DOMAIN sessions :
          /\ sessions'[n].host = "started"
          /\ sessions'[n].log = <<>>
          /\ Received(sessions'[n]) = <<<<>>, PendingPromise>>
          /\ \A m \in DOMAIN sessions : sessions'[m] = sessions[m]
     /\ \A n \in DOMAIN sessions :
          /\ sessions'[n] # sessions[n] =>
               \A m \in DOMAIN sessions \ {n} : sessions'[m] = sessions[m]
          /\ Received(sessions'[n]) # Received(sessions[n]) =>
               Len(sessions'[n].log) = Len(sessions[n].log) + 1]_vars

C28_Witness ==
  /\ Len(sessions) = 2
  /\ sessions[1].owner = sessions[2].owner
  /\ sessions[1].kind = "subscribe"
  /\ Len(sessions[1].calls) = 1
  /\ sessions[1].stopRequested
  /\ sessions[2].host = "started"
  /\ ~sessions[2].stopRequested
  /\ Received(sessions[2]) = <<<<>>, PendingPromise>>

CompleteCalls(calls) == {p \in DOMAIN calls : calls[p].call = "complete"}

EndEvents(log) == {i \in DOMAIN log : log[i].type = "end"}

\* C29: on a subscription every complete call comes right after the next call
\* that carried the 'end'-tagged event, and there are as many complete calls
\* as 'end' events of the host: none without an 'end', one with each.
C29_CompleteFollowsEndEvent ==
  \A n \in Subscriptions :
    LET calls == sessions[n].calls
    IN /\ \A p \in CompleteCalls(calls) :
            /\ p > 1
            /\ calls[p - 1].call = "next"
            /\ calls[p - 1].value.tag = "end"
       /\ Cardinality(CompleteCalls(calls)) = Cardinality(EndEvents(sessions[n].log))

C29_Witness ==
  \E n \in Subscriptions :
    /\ Len(sessions[n].log) = 2
    /\ sessions[n].log[1].type = "start"
    /\ sessions[n].log[2].type = "end"
    /\ sessions[n].stopCalls = 0
    /\ sessions[n].calls[2].value.tag = "end"
    /\ sessions[n].calls[3].call = "complete"

\* C30: once the host's 'end' or 'error' event of a subscribed session has
\* been passed to next, no later host event of that session is passed to next.
C30_NothingForwardedAfterEndOrError ==
  \A n \in Subscriptions :
    \A i \in DOMAIN sessions[n].log :
      sessions[n].log[i].type \in {"end", "error"} =>
        Len(NextValues(sessions[n].calls)) <= i

\* C31: every Recognition instance has its four configuration fields, each
\* with a defined value.
C31_OptionsFullyPopulated ==
  \A i \in DOMAIN instances :
    /\ DOMAIN instances[i] = Keys
    /\ instances[i].lang # Undefined
    /\ instances[i].continuous \in BOOLEAN
    /\ instances[i].interimResults \in BOOLEAN
    /\ instances[i].maxAlternatives \in Nat

\* C34: once unsubscribe has been called on a subscription, no further call
\* is made on its observer.
C34_NoCallbackAfterUnsubscribe ==
  [][\A n \in DOMAIN sessions :
       (sessions[n].kind = "subscribe" /\ sessions[n].stopCalls > 0) =>
         sessions'[n].calls = sessions[n].calls]_vars

\* C35: a listen call whose host session has ended has a settled promise.
C35_ListenSettledWhenSessionEnded ==
  \A n \in Listens :
    sessions[n].host = "ended" => sessions[n].promise.state # "pending"

\* the calls that reach functions of the observer itself
ObserverCalls(s) == SelectSeq(s.calls, LAMBDA c : c.call \in s.observer)

\* C33: whatever members the observer has, every call the listeners make goes
\* to a function (the observer's own or a no-op), so none raises; the session
\* is started all the same, and unsubscribe asks the host to stop it.
C33_PartialObserverIsSafe ==
  \A n \in Subscriptions :
    /\ \A p \in DOMAIN sessions[n].calls :
         Subscriber(sessions[n].observer)[sessions[n].calls[p].call] \in {"observer", "noop"}
    /\ sessions[n].host \in {"started", "ended"}
    /\ (sessions[n].stopCalls > 0 /\ sessions[n].host = "started") => sessions[n].stopRequested
    /\ sessions[n].observer = {} => ObserverCalls(sessions[n]) = <<>>

C33_Witness ==
  \E n \in Subscriptions :
    /\ sessions[n].observer = {}
    /\ Len(sessions[n].calls) = 1
    /\ sessions[n].calls[1].call = "next"
    /\ sessions[n].stopCalls = 1
    /\ sessions[n].stopRequested

-----------------------------------------------------------------------------
(* Synthesis: waiters, kept selections *)

\* C37: one 'voiceschanged' signal resolves every waiting getAllVoices call
\* with the catalog of that moment; a call that is no longer waiting is left
\* as it is by every later signal, a resolved call never waits or resolves
\* again, and no speak call has more than one utterance.
C37_SignalResolvesEachWaiterOnce ==
  [][/\ catalog' # catalog =>
          /\ utterances' = utterances
          /\ \A j \in DOMAIN jobs :
               IF jobs[j].state = "waiting"
                 THEN jobs'[j].state = "resolving" /\ jobs'[j].voices = catalog'
                 ELSE jobs'[j] = jobs[j]
     /\ \A j \in DOMAIN jobs :
          jobs[j].state \in {"threw", "dispatched"} =>
            jobs'[j].state = jobs[j].state /\ jobs'[j].voices = jobs[j].voices
     /\ \A j \in DOMAIN jobs' :
          Cardinality({u \in DOMAIN utterances' : utterances'[u].job = j}) <= 1]_vars

C37_Witness ==
  /\ Len(jobs) = 2
  /\ \A j \in DOMAIN jobs : jobs[j].voices = <<Daniel>> /\ jobs[j].state = "dispatched"
  /\ catalog = FullCatalog
  /\ Len(utterances) = 2

\* the voice attributes the arguments of a speak call provide
ProvidedVoiceKeys(j) == jobs[j].options.keys \cap VoiceKeySet

\* C38: the voice of an utterance has the attributes of every selector of the
\* receiver of its speak call and those the call's options provide; a call
\* with a text and no voice attribute dispatches whenever the catalog it read
\* holds a voice that fits the receiver's selectors.
C38_SelectionKeptBySpeak ==
  /\ \A u \in DOMAIN utterances :
       LET j == utterances[u].job
       IN /\ \A n \in DOMAIN ReceiverChain(j) :
               HasAttributes(utterances[u].voice, ReceiverChain(j)[n])
          /\ \A k \in ProvidedVoiceKeys(j) : utterances[u].voice[k] = jobs[j].options[k]
  /\ \A j \in Resolved :
       (jobs[j].shape \in {"text", "text+options"} /\ ProvidedVoiceKeys(j) = {}
          /\ MatchingAll(jobs[j].voices, ReceiverChain(j)) # <<>>)
         => jobs[j].state = "dispatched"

C38_Witness ==
  \E u, v \in DOMAIN utterances :
    /\ jobs[utterances[u].job].receiver = jobs[utterances[v].job].receiver
    /\ ReceiverChain(utterances[u].job) = <<voiceOptions(LangConfig("en-US"))>>
    /\ jobs[utterances[u].job].shape = "text+options"
    /\ utterances[u].voice = Albert
    /\ jobs[utterances[v].job].shape = "options"
    /\ utterances[v].voice = GoogleUS

-----------------------------------------------------------------------------
(* The loop, and speak calls of one turn *)

\* the speak call of a round of the loop has dispatched, once its voices have
\* resolved, exactly one utterance, whose text is the round's transcript
LoopDispatchesTranscripts ==
  \A n \in DOMAIN jobs :
    /\ jobs[n].text = sessions[n].promise.value
    /\ jobs[n].state = "dispatched" =>
         /\ Cardinality(UtterancesOf(n)) = 1
         /\ \A u \in UtterancesOf(n) : utterances[u].text = sessions[n].promise.value

\* a further round's session exists only once the host has reported the end
\* of the utterance of the round before
LoopListensAfterUtteranceEnd ==
  \A n \in DOMAIN sessions :
    n > 1 => \E u \in UtterancesOf(n - 1) : utterances[u].status = "ended"

\* no session of the loop is between start and 'end' while an utterance of
\* the loop is with the host
LoopNeverOverlaps ==
  ~ \E n \in DOMAIN sessions, u \in DOMAIN utterances :
      sessions[n].host = "started" /\ utterances[u].status = "queued"

\* C32: in the loop every transcript is dispatched as exactly one utterance
\* with that text, the next session starts only after the host has reported
\* that utterance's end, and a session and an utterance are never active
\* together.
C32_LoopAlternatesListenAndSpeak ==
  /\ LoopDispatchesTranscripts
  /\ LoopListensAfterUtteranceEnd
  /\ LoopNeverOverlaps

\* C36: utterances reach the host in the order of the speak calls of the turn.
C36_UtterancesInCallOrder ==
  \A u, v \in DOMAIN utterances :
    u < v => utterances[u].job < utterances[v].job

=============================================================================
